---- MODULE Spec2Model ----
(***************************************************************************)
(* The VectorQuantizer layer of examples/generative/ipynb/vq_vae.ipynb,    *)
(* the train step that drives it and the embedding lookup of the           *)
(* generation cell, as a state machine.                                    *)
(*                                                                         *)
(* Numbers.  The layer works in float32.  Tensor elements are modelled as  *)
(* integer-valued float32 numbers; every float32 addition, subtraction     *)
(* and multiplication is the exact integer result rounded to the nearest   *)
(* float32 (24-bit significand, ties to even): RoundF32.  A mean (a sum    *)
(* divided by an element count) and its product with beta are kept as the  *)
(* exact quotient [num, den]; a quotient with den = 0 is the 0/0 of a mean *)
(* over no elements, which float32 gives as NaN.                           *)
(*                                                                         *)
(* Tensors are records [shape |-> <<rows, width>>, data |-> row-major      *)
(* sequence]; code indices count from 0 as in the source.                  *)
(***************************************************************************)
EXTENDS Integers, Sequences, FiniteSets, TLC

\* ---------------------------------------------------------------- bounds
\* embedding_dim ranges over 1..MaxDim, num_embeddings over 1..MaxCodes,
\* and a batch has 0..MaxBatch rows.
MaxDim == 2
MaxCodes == 2
MaxBatch == 3
\* The priors array has 1..MaxRows rows and 1..MaxCols cols.
MaxRows == 2
MaxCols == 2
\* A kernel is 1..MaxKernel high and wide, with 1..MaxChannels input and
\* output channels.
MaxKernel == 3
\* fit runs at most MaxSteps train steps.
MaxSteps == 2
MaxChannels == 2

\* ------------------------------------------------------ program constants
\* dtype="float32": a 24-bit significand.
MantissaBits == 24
\* beta=0.25, as the quotient BetaNum / BetaDen.
BetaNum == 1
BetaDen == 4
\* batch = 10: the number of images the sampling cell generates.
batch == 10

VARIABLES
    embedding_dim,     \* self.embedding_dim
    num_embeddings,    \* self.num_embeddings
    embeddings,        \* self.embeddings, shape (embedding_dim, num_embeddings)
    x,                 \* the batch this run feeds to the layer
    losses,            \* the layer's losses list (what add_loss exposes)
    pc,                \* position of train_step: "idle", "forward", "applied"
    op,                \* the operation that ran last
    raised,            \* whether that operation raised
    encoding_indices,  \* indices it computed (call, get_code_indices)
    quantized,         \* call: quantized before the straight-through line;
                       \* lookup: the looked-up tensor
    result,            \* the tensor call returned, with its derivative
    commitment_loss,   \* call's local commitment_loss
    codebook_loss,     \* call's local codebook_loss
    priors,            \* the sampled codes: the array the sampling loop
                       \* fills, and what the embedding lookup is given
    codebook_indices,  \* codebook_indices, the result kept from the latest
                       \* get_code_indices cell
    \* VQVAETrainer
    reconstruction_loss,          \* train_step's local reconstruction_loss
    total_loss,                   \* train_step's local total_loss
    total_loss_tracker,           \* keras.metrics.Mean: [total, count]
    reconstruction_loss_tracker,  \* keras.metrics.Mean: [total, count]
    vq_loss_tracker,              \* keras.metrics.Mean: [total, count]
    \* the sampling cell
    rows,              \* rows of the priors array
    cols,              \* cols of the priors array
    row,               \* loop variable of the outer for
    col,               \* loop variable of the inner for
    sampler_calls,     \* number of sampler.predict calls made
    visited,           \* the (row, col) of each iteration, in order
    \* PixelConvLayer
    mask_type,         \* self.mask_type
    kernel,            \* self.conv.kernel
    mask               \* self.mask

quantizerVars == <<embedding_dim, num_embeddings, embeddings, x, losses, raised,
                   encoding_indices, quantized, result, commitment_loss,
                   codebook_loss, codebook_indices>>
trainerVars == <<reconstruction_loss, total_loss, total_loss_tracker,
                 reconstruction_loss_tracker, vq_loss_tracker>>
samplerVars == <<rows, cols, row, col, sampler_calls, visited>>
pixelVars == <<mask_type, kernel, mask>>

vars == <<quantizerVars, trainerVars, samplerVars, pixelVars, pc, op, priors>>

\* ------------------------------------------------------- float32 numbers
Abs(n) == IF n < 0 THEN -n ELSE n

\* The spacing of float32 numbers around magnitude a >= 2^MantissaBits.
Ulp(a) == 2 ^ (CHOOSE e \in 1..7 : 2^(MantissaBits - 1 + e) <= a
                                   /\ a < 2^(MantissaBits + e))

\* n rounded to the nearest float32, ties to even.
RoundF32(n) ==
    LET a == Abs(n) IN
    IF a < 2^MantissaBits THEN n
    ELSE LET u == Ulp(a)
             q == a \div u
             r == a % u
             m == IF 2*r > u \/ (2*r = u /\ q % 2 = 1) THEN (q + 1) * u ELSE q * u
         IN IF n < 0 THEN -m ELSE m

FAdd(a, b) == RoundF32(a + b)
FSub(a, b) == RoundF32(a - b)
FMul(a, b) == RoundF32(a * b)

\* The sequence <<F(1), ..., F(n)>>.
RECURSIVE Tabulate(_, _)
Tabulate(F(_), n) == IF n = 0 THEN <<>> ELSE Append(Tabulate(F, n - 1), F(n))

\* The float32 sum of the sequence f, accumulated in index order.
RECURSIVE FSumTo(_, _)
FSumTo(f, hi) == IF hi = 0 THEN 0 ELSE FAdd(FSumTo(f, hi - 1), f[hi])
FSum(f) == FSumTo(f, Len(f))

\* ------------------------------------------------------------- quotients
RECURSIVE Gcd(_, _)
Gcd(a, b) == IF b = 0 THEN a ELSE Gcd(b, a % b)

\* A quotient in lowest terms; 0/0 (NaN) stays as it is.
Norm(r) ==
    IF r.den = 0 THEN [num |-> 0, den |-> 0]
    ELSE LET g == Gcd(Abs(r.num), r.den) IN [num |-> r.num \div g, den |-> r.den \div g]

IsNaN(r) == r.den = 0
Quot(n, d) == Norm([num |-> n, den |-> d])
QAdd(a, b) ==
    IF IsNaN(a) \/ IsNaN(b) THEN Quot(0, 0)
    ELSE LET g == Gcd(a.den, b.den)
         IN Quot(a.num * (b.den \div g) + b.num * (a.den \div g), (a.den \div g) * b.den)
QMul(a, b) == IF IsNaN(a) \/ IsNaN(b) THEN Quot(0, 0) ELSE Quot(a.num * b.num, a.den * b.den)

beta == Quot(BetaNum, BetaDen)

\* The float32 nearest to a quotient whose denominator is a power of two
\* (rounding commutes with the scaling), and the float32 sum of two such.
F32Q(q) == IF IsNaN(q) THEN q ELSE Quot(RoundF32(q.num), q.den)
QFAdd(a, b) == F32Q(QAdd(a, b))

\* --------------------------------------------------------------- tensors
Tensor(n, width, data) == [shape |-> <<n, width>>, data |-> data]
Size(t) == Len(t.data)
NoTensor == Tensor(0, 0, <<>>)

\* tf.reshape(t, [-1, width]): the same elements in rows of `width`; it
\* raises when the element count is no multiple of width.
ReshapeRaises(t, width) == Size(t) % width # 0
reshape(t, width) == Tensor(Size(t) \div width, width, t.data)

\* Row i (from 1) of a two-dimensional tensor.
Row(t, i) == SubSeq(t.data, (i - 1) * t.shape[2] + 1, i * t.shape[2])

\* ------------------------------------------------------- VectorQuantizer
Codes(K) == 0..(K - 1)

\* tf.matmul(flattened_inputs, self.embeddings)[i][k]
similarity(flat, emb, i, k) ==
    LET v == Row(flat, i)
    IN FSum(Tabulate(LAMBDA d : FMul(v[d], emb[d][k]), flat.shape[2]))

\* tf.reduce_sum(flattened_inputs ** 2, axis=1, keepdims=True)[i]
input_sq_norm(flat, i) ==
    LET v == Row(flat, i)
    IN FSum(Tabulate(LAMBDA d : FMul(v[d], v[d]), flat.shape[2]))

\* tf.reduce_sum(self.embeddings ** 2, axis=0)[k]
code_sq_norm(emb, D, k) ==
    FSum(Tabulate(LAMBDA d : FMul(emb[d][k], emb[d][k]), D))

\* distances[i][k] with the factor of the similarity term dropped.
distances_no_factor(flat, emb, i, k) ==
    FSub(FAdd(input_sq_norm(flat, i), code_sq_norm(emb, flat.shape[2], k)),
         similarity(flat, emb, i, k))

\* distances[i][k] = (sum(x**2) + sum(e**2)) - 2 * similarity
distances(flat, emb, i, k) ==
    FSub(FAdd(input_sq_norm(flat, i), code_sq_norm(emb, flat.shape[2], k)),
         FMul(2, similarity(flat, emb, i, k)))

\* An argmin that returns the last of the minima.
argmin_last(dists) ==
    CHOOSE k \in Codes(Len(dists)) : /\ \A j \in Codes(Len(dists)) : dists[k + 1] <= dists[j + 1]
                                   /\ \A j \in Codes(Len(dists)) : dists[j + 1] = dists[k + 1] => j <= k

\* An argmin that counts the codes from one.
argmin_from_one(dists) ==
    CHOOSE k \in 1..Len(dists) : /\ \A j \in 1..Len(dists) : dists[k] <= dists[j]
                               /\ \A j \in 1..Len(dists) : dists[j] = dists[k] => k <= j

\* tf.argmin over one row of distances (dists[k + 1] is the distance to code
\* k): the smallest index among the minima.
argmin(dists) ==
    CHOOSE k \in Codes(Len(dists)) : /\ \A j \in Codes(Len(dists)) : dists[k + 1] <= dists[j + 1]
                                   /\ \A j \in Codes(Len(dists)) : dists[j + 1] = dists[k + 1] => k <= j

\* VectorQuantizer.get_code_indices: one index per row of flattened_inputs.
get_code_indices(flat, emb, K) ==
    Tabulate(LAMBDA i : argmin(Tabulate(LAMBDA k : distances(flat, emb, i, k - 1), K)),
             flat.shape[1])

\* A one_hot whose columns are one place to the right.
one_hot_shifted(indices, i, k) == IF indices[i] + 1 = k THEN 1 ELSE 0

\* tf.one_hot(indices, K)[i][k]; an index outside 0..K-1 gives a zero row.
one_hot(indices, i, k) == IF indices[i] = k THEN 1 ELSE 0

\* tf.matmul(encodings, self.embeddings, transpose_b=True), shape (N, D).
one_hot_matmul_element(indices, emb, D, K, j) ==
    LET i == ((j - 1) \div D) + 1
        d == ((j - 1) % D) + 1
    IN FSum(Tabulate(LAMBDA k : FMul(one_hot(indices, i, k - 1), emb[d][k - 1]), K))
one_hot_matmul(indices, emb, D, K) ==
    Tensor(Len(indices), D,
           Tabulate(LAMBDA j : one_hot_matmul_element(indices, emb, D, K, j),
                    Len(indices) * D))

\* The differences without the square.
SignedDifference(a, b) == Tabulate(LAMBDA j : FSub(a[j], b[j]), Len(a))

\* tf.reduce_mean((a - b) ** 2) over all elements of two equal-sized tensors.
SquaredDifference(a, b) ==
    Tabulate(LAMBDA j : FMul(FSub(a[j], b[j]), FSub(a[j], b[j])), Len(a))
reduce_mean(sq) == Quot(FSum(sq), Len(sq))

\* A tensor with its derivative by the layer input x (the tape watches x;
\* every operation below is elementwise, so d t[j] / d x[j] is one number).
Dual(v, g) == [v |-> v, g |-> g]
Watched(data) == Dual(data, Tabulate(LAMBDA j : 1, Len(data)))
\* one_hot(argmin(...)) is integer-valued: no gradient reaches x through it.
Unwatched(data) == Dual(data, Tabulate(LAMBDA j : 0, Len(data)))
stop_gradient(t) == Dual(t.v, Tabulate(LAMBDA j : 0, Len(t.v)))
DualAdd(a, b) == Dual(Tabulate(LAMBDA j : FAdd(a.v[j], b.v[j]), Len(a.v)),
                      Tabulate(LAMBDA j : a.g[j] + b.g[j], Len(a.v)))
DualSub(a, b) == Dual(Tabulate(LAMBDA j : FSub(a.v[j], b.v[j]), Len(a.v)),
                      Tabulate(LAMBDA j : a.g[j] - b.g[j], Len(a.v)))

\* The straight-through line without its stop_gradient.
straight_through_no_stop(xd, qd) == DualAdd(xd, DualSub(qd, xd))

\* quantized = x + tf.stop_gradient(quantized - x)
straight_through(xd, qd) == DualAdd(xd, stop_gradient(DualSub(qd, xd)))

\* A commitment loss that leaves beta out.
call_commitment_loss_unscaled(q, xt) == reduce_mean(SquaredDifference(q.data, xt.data))

\* commitment_loss = self.beta * tf.reduce_mean((stop_gradient(quantized) - x) ** 2)
call_commitment_loss(q, xt) == QMul(beta, reduce_mean(SquaredDifference(q.data, xt.data)))

\* codebook_loss = tf.reduce_mean((quantized - stop_gradient(x)) ** 2)
call_codebook_loss(q, xt) == reduce_mean(SquaredDifference(q.data, xt.data))

\* An add_loss that reports the two terms one by one.
add_loss_each(commitment, codebook) == <<commitment, codebook>>

\* self.add_loss(commitment_loss + codebook_loss): one scalar joins the
\* losses list, which the enclosing __call__ emptied on entry.
add_loss(commitment, codebook) == <<QAdd(commitment, codebook)>>

\* The quantization lines of call: reshape, get_code_indices, one_hot,
\* matmul, reshape back to input_shape.
call_quantized(xt, emb, D, K) ==
    LET flattened == reshape(xt, D)
        indices == get_code_indices(flattened, emb, K)
        q == one_hot_matmul(indices, emb, D, K)
    IN [encoding_indices |-> indices,
        quantized |-> Tensor(xt.shape[1], xt.shape[2], q.data)]

\* ------------------------------------------------------------ the inputs
\* The codebooks and batches of a run are drawn from short cyclic streams:
\* small numbers (codes 0 and 10 with rows between them, 5 being midway),
\* and numbers whose squares float32 has to round (4096 and 4097 next to
\* the row 4097; 4101 and 4093 on either side of it).
CodeStreams == {<<0, 10>>, <<4096, 4097>>, <<4101, 4093>>}
RowStreams == {<<(<<1, 1>>), (<<9, 5>>), (<<5, 5>>)>>, <<(<<4097, 4097>>)>>}

Cyclic(stream, offset, i) == stream[((offset + i - 1) % Len(stream)) + 1]

\* Codebooks of shape (D, K): entry k has every component equal to the k-th
\* value of a code stream read from some offset.
Codebooks(D, K) ==
    {[d \in 1..D |-> [k \in Codes(K) |-> Cyclic(st, o, k)]]
        : st \in CodeStreams, o \in 0..1}

\* Element j of the batch of width w whose rows are read from a row stream;
\* a row alternates the two values of its stream entry.
BatchElement(st, o, w, j) ==
    LET i == ((j - 1) \div w) + 1
        d == ((j - 1) % w) + 1
    IN Cyclic(st, o, i - 1)[IF d % 2 = 1 THEN 1 ELSE 2]

\* Batches of 0..MaxBatch rows of width 1..MaxDim.
Batches ==
    {Tensor(n, w, Tabulate(LAMBDA j : BatchElement(st, o, w, j), n * w))
        : n \in 0..MaxBatch, w \in 1..MaxDim, st \in RowStreams, o \in 0..2}

\* Sampled codes for the lookup: MaxBatch codes counting up cyclically
\* from o.
Priors(K) == {Tabulate(LAMBDA i : (o + i - 1) % K, MaxBatch) : o \in Codes(K)}

NoLoss == Quot(0, 1)

\* codebook_indices before any get_code_indices cell has run.
NoIndices == <<-1>>

\* keras.metrics.Mean(...) as constructed: nothing accumulated.
Mean == [total |-> Quot(0, 1), count |-> 0]

\* keras.metrics.Mean.update_state(value): the total grows by the value in
\* float32 and the count by one.
update_state(tracker, value) ==
    [total |-> QFAdd(tracker.total, value), count |-> tracker.count + 1]

\* sum(self.vqvae.losses): 0 + losses[1] + ..., in float32.
RECURSIVE SumLossesTo(_, _)
SumLossesTo(l, n) == IF n = 0 THEN Quot(0, 1) ELSE QFAdd(SumLossesTo(l, n - 1), l[n])
SumLosses(l) == SumLossesTo(l, Len(l))

\* What the decoder's output can make of reconstruction_loss.
ReconLosses == {Quot(1, 1)}

\* VQVAETrainer.__init__: the three trackers; train_step's locals are unset.
TrainerInit ==
    /\ reconstruction_loss = NoLoss
    /\ total_loss = NoLoss
    /\ total_loss_tracker = Mean
    /\ reconstruction_loss_tracker = Mean
    /\ vq_loss_tracker = Mean

\* The sampling cell has not run.
SamplerIdle ==
    /\ rows = 0
    /\ cols = 0
    /\ row = 0
    /\ col = 0
    /\ sampler_calls = 0
    /\ visited = <<>>

\* No PixelConvLayer has been built.
PixelIdle ==
    /\ mask_type = "A"
    /\ kernel = NoTensor
    /\ mask = NoTensor

Init ==
    /\ embedding_dim \in 1..MaxDim
    /\ num_embeddings \in 1..MaxCodes
    /\ embeddings \in Codebooks(embedding_dim, num_embeddings)
    /\ x \in Batches
    /\ losses = <<>>
    /\ pc = "idle"
    /\ op = "init"
    /\ raised = FALSE
    /\ encoding_indices = <<>>
    /\ quantized = NoTensor
    /\ result = Dual(<<>>, <<>>)
    /\ commitment_loss = NoLoss
    /\ codebook_loss = NoLoss
    /\ priors = <<>>
    /\ codebook_indices = NoIndices
    /\ TrainerInit
    /\ SamplerIdle
    /\ PixelIdle

\* VectorQuantizer.call on input xt: whether it raised, its locals, the
\* losses list it leaves (emptied on entry, before the reshape can raise)
\* and the tensor it returns.
call(xt, emb, D, K) ==
    IF ReshapeRaises(xt, D)
    THEN [raised |-> TRUE, encoding_indices |-> <<>>, quantized |-> NoTensor,
          commitment_loss |-> NoLoss, codebook_loss |-> NoLoss, losses |-> <<>>,
          result |-> Dual(<<>>, <<>>)]
    ELSE LET c == call_quantized(xt, emb, D, K)
             cl == call_commitment_loss(c.quantized, xt)
             bl == call_codebook_loss(c.quantized, xt)
         IN [raised |-> FALSE,
             encoding_indices |-> c.encoding_indices,
             quantized |-> c.quantized,
             commitment_loss |-> cl,
             codebook_loss |-> bl,
             losses |-> add_loss(cl, bl),
             result |-> straight_through(Watched(xt.data), Unwatched(c.quantized.data))]

\* What one run of call leaves in the state; `next` is where train_step
\* stands after it ("idle" for a call outside train_step, and after a raise).
CallEffect(next) ==
    \E r \in {call(x, embeddings, embedding_dim, num_embeddings)} :
        /\ op' = "call"
        /\ raised' = r.raised
        /\ pc' = IF r.raised THEN "idle" ELSE next
        /\ encoding_indices' = r.encoding_indices
        /\ quantized' = r.quantized
        /\ commitment_loss' = r.commitment_loss
        /\ codebook_loss' = r.codebook_loss
        /\ losses' = r.losses
        /\ result' = r.result
        /\ priors' = <<>>
        /\ UNCHANGED <<embedding_dim, num_embeddings, x, codebook_indices>>
        /\ UNCHANGED <<samplerVars, pixelVars>>

\* A call that also moves every code to the first input element, the way
\* PixelConvLayer.call assigns to its kernel.
CallAssigning ==
    /\ pc = "idle"
    /\ CallEffect("idle")
    /\ UNCHANGED trainerVars
    /\ embeddings' = [d \in 1..embedding_dim |->
                         [k \in Codes(num_embeddings) |->
                             IF Size(x) = 0 THEN embeddings[d][k] ELSE x.data[1]]]

\* VectorQuantizer.call, reached through the model outside training
\* (predict).
Call ==
    /\ pc = "idle"
    /\ CallEffect("idle")
    /\ UNCHANGED embeddings
    /\ UNCHANGED trainerVars

\* train_step, up to the end of the tape: the forward pass, then
\* reconstruction_loss and total_loss; a call that raises ends the step.
TrainForward ==
    /\ pc = "idle"
    /\ total_loss_tracker.count < MaxSteps
    /\ CallEffect("forward")
    /\ UNCHANGED embeddings
    /\ IF raised'
       THEN reconstruction_loss' = NoLoss /\ total_loss' = NoLoss
       ELSE /\ reconstruction_loss' \in ReconLosses
            /\ total_loss' = QFAdd(reconstruction_loss', SumLosses(losses'))
    /\ UNCHANGED <<total_loss_tracker, reconstruction_loss_tracker, vq_loss_tracker>>

\* train_step: self.optimizer.apply_gradients(...) writes the codebook.
ApplyGradients ==
    /\ pc = "forward"
    /\ embeddings' \in Codebooks(embedding_dim, num_embeddings)
    /\ pc' = "applied"
    /\ op' = "apply_gradients"
    /\ UNCHANGED <<embedding_dim, num_embeddings, x, losses, raised, encoding_indices,
                   quantized, result, commitment_loss, codebook_loss, priors,
                   codebook_indices>>
    /\ UNCHANGED <<trainerVars, samplerVars, pixelVars>>

\* The update_state calls with the vector-quantization loss computed anew
\* from the codebook the optimizer left.
TrackLossesRecomputed ==
    /\ pc = "applied"
    /\ pc' = "idle"
    /\ op' = "update_state"
    /\ total_loss_tracker' = update_state(total_loss_tracker, total_loss)
    /\ reconstruction_loss_tracker' =
          update_state(reconstruction_loss_tracker, reconstruction_loss)
    /\ vq_loss_tracker' =
          update_state(vq_loss_tracker,
                       SumLosses(call(x, embeddings, embedding_dim, num_embeddings).losses))
    /\ reconstruction_loss' = NoLoss
    /\ total_loss' = NoLoss
    /\ UNCHANGED <<embedding_dim, num_embeddings, embeddings, x, losses, raised,
                   encoding_indices, quantized, result, commitment_loss, codebook_loss,
                   priors, codebook_indices>>
    /\ UNCHANGED <<samplerVars, pixelVars>>

\* train_step: the three update_state calls and the return, which ends the
\* life of the step's locals.
TrackLosses ==
    /\ pc = "applied"
    /\ pc' = "idle"
    /\ op' = "update_state"
    /\ total_loss_tracker' = update_state(total_loss_tracker, total_loss)
    /\ reconstruction_loss_tracker' =
          update_state(reconstruction_loss_tracker, reconstruction_loss)
    /\ vq_loss_tracker' = update_state(vq_loss_tracker, SumLosses(losses))
    /\ reconstruction_loss' = NoLoss
    /\ total_loss' = NoLoss
    /\ UNCHANGED <<embedding_dim, num_embeddings, embeddings, x, losses, raised,
                   encoding_indices, quantized, result, commitment_loss, codebook_loss,
                   priors, codebook_indices>>
    /\ UNCHANGED <<samplerVars, pixelVars>>

\* A get_code_indices that leaves the codebook in the reverse order.
GetCodeIndicesReordering ==
    /\ pc = "idle"
    /\ op' = "get_code_indices"
    /\ raised' = (x.shape[2] # embedding_dim)
    /\ encoding_indices' = IF x.shape[2] # embedding_dim THEN <<>>
                           ELSE get_code_indices(x, embeddings, num_embeddings)
    /\ embeddings' = [d \in 1..embedding_dim |->
                         [k \in Codes(num_embeddings) |->
                             embeddings[d][num_embeddings - 1 - k]]]
    /\ quantized' = NoTensor
    /\ result' = Dual(<<>>, <<>>)
    /\ commitment_loss' = NoLoss
    /\ codebook_loss' = NoLoss
    /\ priors' = <<>>
    /\ codebook_indices' = IF raised' THEN codebook_indices ELSE encoding_indices'
    /\ UNCHANGED <<embedding_dim, num_embeddings, x, losses, pc>>
    /\ UNCHANGED <<trainerVars, samplerVars, pixelVars>>

\* quantizer.get_code_indices(flat_enc_outputs), flat_enc_outputs being the
\* batch reshaped to (-1, its own last dimension); the matmul raises when
\* that is not embedding_dim.
GetCodeIndices ==
    /\ pc = "idle"
    /\ op' = "get_code_indices"
    /\ raised' = (x.shape[2] # embedding_dim)
    /\ encoding_indices' = IF x.shape[2] # embedding_dim THEN <<>>
                           ELSE get_code_indices(x, embeddings, num_embeddings)
    /\ quantized' = NoTensor
    /\ result' = Dual(<<>>, <<>>)
    /\ commitment_loss' = NoLoss
    /\ codebook_loss' = NoLoss
    /\ priors' = <<>>
    /\ codebook_indices' = IF raised' THEN codebook_indices ELSE encoding_indices'
    /\ UNCHANGED <<embedding_dim, num_embeddings, embeddings, x, losses, pc>>
    /\ UNCHANGED <<trainerVars, samplerVars, pixelVars>>

\* The generation cell: one_hot of the sampled codes times the codebook.
EmbeddingLookup ==
    /\ pc = "idle"
    /\ priors' \in Priors(num_embeddings)
    /\ op' = "lookup"
    /\ raised' = FALSE
    /\ quantized' = one_hot_matmul(priors', embeddings, embedding_dim, num_embeddings)
    /\ encoding_indices' = <<>>
    /\ result' = Dual(<<>>, <<>>)
    /\ commitment_loss' = NoLoss
    /\ codebook_loss' = NoLoss
    /\ UNCHANGED <<embedding_dim, num_embeddings, embeddings, x, losses, pc,
                   codebook_indices>>
    /\ UNCHANGED <<trainerVars, samplerVars, pixelVars>>

\* The layer in use outside training: predict, the get_code_indices cells
\* and the embedding lookup.
Next ==
    \/ Call
    \/ GetCodeIndices
    \/ EmbeddingLookup

Spec == Init /\ [][Next]_vars

\* ------------------------------------------------------------- training
\* fit: train_step after train_step on a batch the encoder produced (its
\* last dimension is embedding_dim; it is not empty), with the uses above
\* in between.  The batch here is one vector of one component: its means,
\* and beta times them, then have power-of-two denominators, as F32Q needs.
InitTrain ==
    /\ Init
    /\ embedding_dim = 1
    /\ x.shape = <<1, 1>>

NextTrain ==
    \/ TrainForward
    \/ ApplyGradients
    \/ TrackLosses
    \/ Call
    \/ GetCodeIndices
    \/ EmbeddingLookup

SpecTrain == InitTrain /\ [][NextTrain]_vars

\* ------------------------------------------- the straight-through line alone
\* The last two lines of call on one element, for inputs and quantized
\* values that need the full float32 range; the squares get_code_indices
\* takes of them lie beyond 32-bit integers, so the
\* quantized value is given and not recomputed.  1.0 and float32(0.1) are
\* 134217728 and 13421773 in units of 2^-27.
STEVals == {-2, 0, 1, 5, 10, 4096, 4097, 13421773, 16777215, 134217728}

InitSTE ==
    /\ embedding_dim = 1
    /\ num_embeddings = 1
    /\ \E q \in STEVals : /\ embeddings = [d \in 1..1 |-> [k \in Codes(1) |-> q]]
                           /\ quantized = Tensor(1, 1, <<q>>)
    /\ \E v \in STEVals : x = Tensor(1, 1, <<v>>)
    /\ losses = <<>>
    /\ pc = "idle"
    /\ op = "quantized"
    /\ raised = FALSE
    /\ encoding_indices = <<0>>
    /\ result = Dual(<<>>, <<>>)
    /\ commitment_loss = NoLoss
    /\ codebook_loss = NoLoss
    /\ priors = <<>>
    /\ codebook_indices = NoIndices
    /\ TrainerInit
    /\ SamplerIdle
    /\ PixelIdle

\* quantized = x + tf.stop_gradient(quantized - x); return quantized
StraightThroughLine ==
    /\ op = "quantized"
    /\ op' = "call"
    /\ result' = straight_through(Watched(x.data), Unwatched(quantized.data))
    /\ UNCHANGED <<embedding_dim, num_embeddings, embeddings, x, losses, pc, raised,
                   encoding_indices, quantized, commitment_loss, codebook_loss, priors,
                   codebook_indices>>
    /\ UNCHANGED <<trainerVars, samplerVars, pixelVars>>

NextSTE == StraightThroughLine

SpecSTE == InitSTE /\ [][NextSTE]_vars

\* ---------------------------------------------------- the sampling cell
\* priors[b, r, c] of the (batch, rows, cols) array, b, r and c from 0, is
\* element PriorIndex(b, r, c) of its row-major sequence.
PriorIndex(b, r, c) == ((b * rows + r) * cols + c) + 1
PriorRow(j) == ((j - 1) \div cols) % rows
PriorCol(j) == (j - 1) % cols
PriorBatch(j) == (j - 1) \div (rows * cols)

\* What sampler.predict returns at one position, for every image: the
\* codes count up cyclically from o.
Sampled(o, b) == (o + b) % num_embeddings

\* priors = np.zeros(shape=(batch,) + (pixel_cnn.input_shape)[1:]);
\* batch, rows, cols = priors.shape, at the head of the two for loops.
InitSampling ==
    /\ embedding_dim = 1
    /\ num_embeddings \in 1..MaxCodes
    /\ embeddings \in Codebooks(embedding_dim, num_embeddings)
    /\ x = Tensor(0, 1, <<>>)
    /\ losses = <<>>
    /\ raised = FALSE
    /\ encoding_indices = <<>>
    /\ quantized = NoTensor
    /\ result = Dual(<<>>, <<>>)
    /\ commitment_loss = NoLoss
    /\ codebook_loss = NoLoss
    /\ codebook_indices = NoIndices
    /\ TrainerInit
    /\ PixelIdle
    /\ rows \in 1..MaxRows
    /\ cols \in 1..MaxCols
    /\ priors = Tabulate(LAMBDA j : 0, batch * rows * cols)
    /\ row = 0
    /\ col = 0
    /\ sampler_calls = 0
    /\ visited = <<>>
    /\ pc = "sampling"
    /\ op = "zeros"

\* One iteration that steps down the column before it steps along the row.
SampleIterationColumnFirst ==
    /\ pc = "sampling"
    /\ \E o \in Codes(num_embeddings) \cap 0..1 :
          priors' = Tabulate(LAMBDA j : IF PriorRow(j) = row /\ PriorCol(j) = col
                                        THEN Sampled(o, PriorBatch(j))
                                        ELSE priors[j],
                             Len(priors))
    /\ sampler_calls' = sampler_calls + 1
    /\ visited' = Append(visited, <<row, col>>)
    /\ op' = "sample"
    /\ IF row + 1 < rows
       THEN row' = row + 1 /\ col' = col /\ pc' = "sampling"
       ELSE IF col + 1 < cols
            THEN row' = 0 /\ col' = col + 1 /\ pc' = "sampling"
            ELSE row' = row /\ col' = col /\ pc' = "sampled"
    /\ UNCHANGED <<rows, cols>>
    /\ UNCHANGED <<quantizerVars, trainerVars, pixelVars>>

\* One iteration of the loops: probs = sampler.predict(priors);
\* priors[:, row, col] = probs[:, row, col]; then the step of the inner
\* for, of the outer for when the inner one is exhausted, or the exit.
SampleIteration ==
    /\ pc = "sampling"
    /\ \E o \in Codes(num_embeddings) \cap 0..1 :
          priors' = Tabulate(LAMBDA j : IF PriorRow(j) = row /\ PriorCol(j) = col
                                        THEN Sampled(o, PriorBatch(j))
                                        ELSE priors[j],
                             Len(priors))
    /\ sampler_calls' = sampler_calls + 1
    /\ visited' = Append(visited, <<row, col>>)
    /\ op' = "sample"
    /\ IF col + 1 < cols
       THEN row' = row /\ col' = col + 1 /\ pc' = "sampling"
       ELSE IF row + 1 < rows
            THEN row' = row + 1 /\ col' = 0 /\ pc' = "sampling"
            ELSE row' = row /\ col' = col /\ pc' = "sampled"
    /\ UNCHANGED <<rows, cols>>
    /\ UNCHANGED <<quantizerVars, trainerVars, pixelVars>>

NextSampling == SampleIteration

\* The loops run on by themselves: an iteration that can be taken is taken.
SpecSampling == InitSampling /\ [][NextSampling]_vars /\ WF_vars(SampleIteration)

\* -------------------------------------------------------- PixelConvLayer
\* A kernel-shaped array: shape (height, width, input channels, output
\* channels), data in row-major order, indices from 0.
KernelSize(shape) == shape[1] * shape[2] * shape[3] * shape[4]
KernelRow(shape, j) == (j - 1) \div (shape[2] * shape[3] * shape[4])
KernelCol(shape, j) == ((j - 1) \div (shape[3] * shape[4])) % shape[2]
KernelIndex(shape, r, c, i, o) == ((r * shape[2] + c) * shape[3] + i) * shape[4] + o + 1

\* self.mask = np.zeros(shape=kernel_shape)
mask_zeros(shape) == [shape |-> shape, data |-> Tabulate(LAMBDA j : 0, KernelSize(shape))]

\* self.mask[: kernel_shape[0] // 2, ...] = 1.0
mask_rows_above(m) ==
    [m EXCEPT !.data = Tabulate(LAMBDA j : IF KernelRow(m.shape, j) < m.shape[1] \div 2
                                           THEN 1 ELSE m.data[j],
                                Len(m.data))]

\* The row of the centre set up to and including the centre.
mask_row_through_centre(m) ==
    [m EXCEPT !.data = Tabulate(LAMBDA j : IF /\ KernelRow(m.shape, j) = m.shape[1] \div 2
                                              /\ KernelCol(m.shape, j) <= m.shape[2] \div 2
                                           THEN 1 ELSE m.data[j],
                                Len(m.data))]

\* self.mask[kernel_shape[0] // 2, : kernel_shape[1] // 2, ...] = 1.0
mask_row_left(m) ==
    [m EXCEPT !.data = Tabulate(LAMBDA j : IF /\ KernelRow(m.shape, j) = m.shape[1] \div 2
                                              /\ KernelCol(m.shape, j) < m.shape[2] \div 2
                                           THEN 1 ELSE m.data[j],
                                Len(m.data))]

\* self.mask[kernel_shape[0] // 2, kernel_shape[1] // 2, ...] = 1.0
mask_centre(m) ==
    [m EXCEPT !.data = Tabulate(LAMBDA j : IF /\ KernelRow(m.shape, j) = m.shape[1] \div 2
                                              /\ KernelCol(m.shape, j) = m.shape[2] \div 2
                                           THEN 1 ELSE m.data[j],
                                Len(m.data))]

\* The mask lines of build.
build_mask(shape, type) ==
    LET m == mask_row_left(mask_rows_above(mask_zeros(shape)))
    IN IF type = "B" THEN mask_centre(m) ELSE m

\* Kernels an initializer or an optimizer step can leave: the weights read
\* cyclically from a short stream.
KernelStreams == {<<3, -2, 7>>, <<1, 0, -5, 4>>}
Kernels(shape) ==
    {[shape |-> shape, data |-> Tabulate(LAMBDA j : Cyclic(st, o, j), KernelSize(shape))]
        : st \in KernelStreams, o \in 0..1}

\* The vector quantizer is not in use.
QuantizerIdle ==
    /\ embedding_dim = 1
    /\ num_embeddings = 1
    /\ embeddings = [d \in 1..1 |-> [k \in Codes(1) |-> 0]]
    /\ x = Tensor(0, 1, <<>>)
    /\ losses = <<>>
    /\ raised = FALSE
    /\ encoding_indices = <<>>
    /\ quantized = NoTensor
    /\ result = Dual(<<>>, <<>>)
    /\ commitment_loss = NoLoss
    /\ codebook_loss = NoLoss
    /\ codebook_indices = NoIndices
    /\ priors = <<>>

\* PixelConvLayer.__init__
InitPixel ==
    /\ QuantizerIdle
    /\ TrainerInit
    /\ SamplerIdle
    /\ mask_type \in {"A", "B"}
    /\ kernel = NoTensor
    /\ mask = NoTensor
    /\ pc = "idle"
    /\ op = "init"

\* PixelConvLayer.build: conv.build creates the kernel, of the shape that
\* kernel_size, the input channels and filters give; then the mask.
Build ==
    /\ mask = NoTensor
    /\ \E kh, kw \in 1..MaxKernel : \E cin, cout \in 1..MaxChannels :
          /\ kernel' \in Kernels(<<kh, kw, cin, cout>>)
          /\ mask' = build_mask(<<kh, kw, cin, cout>>, mask_type)
    /\ op' = "build"
    /\ UNCHANGED <<mask_type, pc, priors>>
    /\ UNCHANGED <<quantizerVars, trainerVars, samplerVars>>

\* A call that convolves with the kernel as it finds it.
PixelCallUnmasked ==
    /\ mask # NoTensor
    /\ op' = "pixel_call"
    /\ UNCHANGED <<mask_type, kernel, mask, pc, priors>>
    /\ UNCHANGED <<quantizerVars, trainerVars, samplerVars>>

\* PixelConvLayer.call: self.conv.kernel.assign(self.conv.kernel * self.mask);
\* return self.conv(inputs)
PixelCall ==
    /\ mask # NoTensor
    /\ kernel' = [kernel EXCEPT
                      !.data = Tabulate(LAMBDA j : FMul(kernel.data[j], mask.data[j]),
                                        Len(kernel.data))]
    /\ op' = "pixel_call"
    /\ UNCHANGED <<mask_type, mask, pc, priors>>
    /\ UNCHANGED <<quantizerVars, trainerVars, samplerVars>>

\* pixel_cnn.fit: an optimizer step writes the kernel.
KernelUpdate ==
    /\ mask # NoTensor
    /\ kernel' \in Kernels(kernel.shape)
    /\ op' = "kernel_update"
    /\ UNCHANGED <<mask_type, mask, pc, priors>>
    /\ UNCHANGED <<quantizerVars, trainerVars, samplerVars>>

NextPixel ==
    \/ Build
    \/ PixelCall
    \/ KernelUpdate

SpecPixel == InitPixel /\ [][NextPixel]_vars

\* ------------------------------------------------------------ properties
\* The operations that assign codes, and the rows they assign them to.
CodeOps == {"call", "get_code_indices"}
Assigned == op \in CodeOps /\ ~raised
Flat == reshape(x, embedding_dim)
Rows == 1..Len(encoding_indices)

\* The squared Euclidean distance of row i to code k, summed directly over
\* the components in exact integer arithmetic.
RECURSIVE SqDiffSum(_, _, _)
SqDiffSum(v, k, d) ==
    IF d = 0 THEN 0
    ELSE SqDiffSum(v, k, d - 1) + (v[d] - embeddings[d][k]) * (v[d] - embeddings[d][k])
TrueSqDist(i, k) == SqDiffSum(Row(Flat, i), k, embedding_dim)

\* sum over d of (|v_d| + |c_d|)^2 bounds every product and partial sum
\* of the expansion; at most 2^MantissaBits, float32 holds them all exactly.
RECURSIVE Magnitude(_, _, _)
Magnitude(v, k, d) ==
    IF d = 0 THEN 0
    ELSE Magnitude(v, k, d - 1)
         + (Abs(v[d]) + Abs(embeddings[d][k])) * (Abs(v[d]) + Abs(embeddings[d][k]))
ExactFor(i) ==
    \A k \in Codes(num_embeddings) :
        Magnitude(Row(Flat, i), k, embedding_dim) <= 2 ^ MantissaBits

Computed(i, k) == distances(Flat, embeddings, i, k)

\* C1: get_code_indices returns exactly one index per input vector, N in
\* all, and every index is at least 0 and less than K.
C1_IndicesCountAndRange ==
    Assigned =>
        /\ Len(encoding_indices) = Size(x) \div embedding_dim
        /\ \A i \in Rows : encoding_indices[i] \in Codes(num_embeddings)

C1_Witness ==
    /\ op = "get_code_indices"
    /\ ~raised
    /\ Len(encoding_indices) = 3
    /\ num_embeddings = 2
    /\ \E i, j \in Rows : encoding_indices[i] = 0 /\ encoding_indices[j] = 1

\* C2 as stated: for every input vector the value the code minimises equals
\* the direct sum of squared component differences for every k, and no
\* codebook entry is strictly closer to the vector than the selected one.
C2_ExpansionIsDistance ==
    Assigned =>
        \A i \in Rows :
            /\ \A k \in Codes(num_embeddings) : Computed(i, k) = TrueSqDist(i, k)
            /\ \A k \in Codes(num_embeddings) :
                  TrueSqDist(i, encoding_indices[i]) <= TrueSqDist(i, k)

\* C2 amended: for every input vector whose distance computation float32
\* carries out exactly, the value the code minimises equals the direct sum
\* of squared component differences for every k, and no codebook entry is
\* strictly closer to the vector than the selected one.
C2_ExactExpansionIsDistance ==
    Assigned =>
        \A i \in Rows :
            ExactFor(i) =>
                /\ \A k \in Codes(num_embeddings) : Computed(i, k) = TrueSqDist(i, k)
                /\ \A k \in Codes(num_embeddings) :
                      TrueSqDist(i, encoding_indices[i]) <= TrueSqDist(i, k)

C2_Witness ==
    /\ op = "call"
    /\ ~raised
    /\ embedding_dim = 2
    /\ num_embeddings = 2
    /\ \E i \in Rows : /\ ExactFor(i)
                       /\ encoding_indices[i] = 1
                       /\ 0 < TrueSqDist(i, 1)
                       /\ TrueSqDist(i, 1) < TrueSqDist(i, 0)

\* The codes at the least direct distance from row i.
Nearest(i) ==
    {k \in Codes(num_embeddings) :
        \A j \in Codes(num_embeddings) : TrueSqDist(i, k) <= TrueSqDist(i, j)}

\* C3 as stated: when two or more codebook entries are at exactly the same
\* minimum distance from an input vector, the lowest of the tied indices is
\* selected.
C3_TieTakesLowestIndex ==
    Assigned =>
        \A i \in Rows :
            Cardinality(Nearest(i)) >= 2 =>
                /\ encoding_indices[i] \in Nearest(i)
                /\ \A k \in Nearest(i) : encoding_indices[i] <= k

\* C3 amended: the selected index has the least computed distance and every
\* lower index has a strictly greater one, so entries whose computed
\* distances tie at the minimum yield the lowest of their indices; entries
\* equidistant from a vector whose distance computation is exact yield the
\* lowest index too, and codebook [0, 10] with inputs 1, 9, 5 gives indices
\* [0, 1, 0] and quantized output [0, 10, 0].
C3_ComputedTieTakesLowestIndex ==
    /\ Assigned =>
          \A i \in Rows :
              /\ \A k \in Codes(num_embeddings) :
                    /\ Computed(i, encoding_indices[i]) <= Computed(i, k)
                    /\ k < encoding_indices[i] =>
                          Computed(i, encoding_indices[i]) < Computed(i, k)
              /\ ExactFor(i) =>
                    /\ encoding_indices[i] \in Nearest(i)
                    /\ \A k \in Nearest(i) : encoding_indices[i] <= k
    /\ (/\ op = "call"
        /\ embedding_dim = 1
        /\ num_embeddings = 2
        /\ embeddings[1][0] = 0
        /\ embeddings[1][1] = 10
        /\ x = Tensor(3, 1, <<1, 9, 5>>))
       => (~raised /\ encoding_indices = <<0, 1, 0>> /\ quantized.data = <<0, 10, 0>>)

C3_Witness ==
    /\ op = "call"
    /\ embedding_dim = 1
    /\ num_embeddings = 2
    /\ embeddings[1][0] = 0
    /\ embeddings[1][1] = 10
    /\ x = Tensor(3, 1, <<1, 9, 5>>)
    /\ Computed(3, 0) = Computed(3, 1)
    /\ encoding_indices[3] = 0

\* C4: the tensor call builds has the shape of the input and its i-th
\* vector is the codebook entry at the i-th assigned index, and the lookup
\* over sampled codes gives the codebook entry at each sampled code.
C4_QuantizedIsCodebookEntry ==
    /\ (op = "call" /\ ~raised) =>
          /\ quantized.shape = x.shape
          /\ Len(quantized.data) = Size(x)
          /\ \A j \in 1..Size(x) :
                quantized.data[j] =
                    embeddings[((j - 1) % embedding_dim) + 1]
                              [encoding_indices[((j - 1) \div embedding_dim) + 1]]
    /\ op = "lookup" =>
          /\ quantized.shape = <<Len(priors), embedding_dim>>
          /\ Len(quantized.data) = Len(priors) * embedding_dim
          /\ \A j \in 1..(Len(priors) * embedding_dim) :
                quantized.data[j] =
                    embeddings[((j - 1) % embedding_dim) + 1]
                              [priors[((j - 1) \div embedding_dim) + 1]]

C4_Witness ==
    /\ op = "call"
    /\ ~raised
    /\ x.shape = <<3, 2>>
    /\ embedding_dim = 2
    /\ \E i, j \in Rows : /\ encoding_indices[i] # encoding_indices[j]
                          /\ Row(quantized, i) # Row(quantized, j)

Returned == op = "call" /\ ~raised

\* C5 as stated: the tensor call returns has a value equal to the quantized
\* vectors for every input, and its derivative by the input is the
\* identity.
C5_ValueIsQuantized ==
    Returned =>
        /\ result.v = quantized.data
        /\ \A j \in 1..Len(result.g) : result.g[j] = 1

\* C5 amended: the tensor call returns has a value equal to the quantized
\* vectors wherever float32 holds quantized - input exactly, and its
\* derivative by the input is the identity everywhere.
C5_ValueIsQuantizedWhereExact ==
    Returned =>
        /\ Len(result.v) = Len(quantized.data)
        /\ Len(result.g) = Len(quantized.data)
        /\ \A j \in 1..Len(quantized.data) :
              /\ result.g[j] = 1
              /\ FSub(quantized.data[j], x.data[j]) = quantized.data[j] - x.data[j]
                    => result.v[j] = quantized.data[j]

C5_Witness ==
    /\ op = "call"
    /\ ~raised
    /\ x.data[1] # quantized.data[1]
    /\ FSub(quantized.data[1], x.data[1]) = quantized.data[1] - x.data[1]
    /\ result = Dual(quantized.data, <<1>>)

\* C6 as stated: the loss reported is codebook loss + beta * commitment
\* loss, the codebook loss being the mean squared error and the commitment
\* loss the mean squared error scaled by beta.
C6_BetaTimesCommitment ==
    Returned =>
        /\ codebook_loss = reduce_mean(SquaredDifference(quantized.data, x.data))
        /\ commitment_loss = QMul(beta, codebook_loss)
        /\ losses = <<QAdd(codebook_loss, QMul(beta, commitment_loss))>>

\* C6 amended: the loss reported is codebook loss + commitment loss, the
\* codebook loss being the mean squared error and the commitment loss the
\* mean squared error scaled by beta, so that beta is applied once.
C6_CodebookPlusCommitment ==
    Returned =>
        /\ codebook_loss = reduce_mean(SquaredDifference(quantized.data, x.data))
        /\ commitment_loss = QMul(beta, codebook_loss)
        /\ losses = <<QAdd(codebook_loss, commitment_loss)>>

C6_Witness ==
    /\ op = "call"
    /\ ~raised
    /\ x.shape = <<3, 1>>
    /\ codebook_loss.num > 0
    /\ commitment_loss.num * BetaDen * codebook_loss.den
          = BetaNum * codebook_loss.num * commitment_loss.den
    /\ losses[1] # QAdd(codebook_loss, QMul(beta, commitment_loss))

\* C7 as stated: after a call the codebook loss and the commitment loss are
\* each in the losses the caller can read, next to their sum.
C7_EachLossExposed ==
    Returned =>
        \E i, j, k \in 1..Len(losses) :
            /\ i # j /\ i # k /\ j # k
            /\ losses[i] = codebook_loss
            /\ losses[j] = commitment_loss
            /\ losses[k] = QAdd(commitment_loss, codebook_loss)

\* C7 amended: after a call the losses the caller can read hold one entry,
\* the sum of the commitment loss and the codebook loss; neither term is
\* there by itself.
C7_OnlySumExposed ==
    Returned =>
        /\ Len(losses) = 1
        /\ losses[1] = QAdd(commitment_loss, codebook_loss)

C7_Witness ==
    /\ op = "call"
    /\ ~raised
    /\ Len(losses) = 1
    /\ ~IsNaN(losses[1])
    /\ losses[1] # codebook_loss
    /\ losses[1] # commitment_loss
    /\ codebook_loss # commitment_loss

\* C8: a call on a non-empty input whose last dimension is not
\* embedding_dim raises.
C8_MismatchRaises ==
    (op = "call" /\ Size(x) > 0 /\ x.shape[2] # embedding_dim) => raised

\* C9: a call on an empty batch raises nothing, assigns no codes and leaves
\* a codebook loss of 0 and a commitment loss of 0.
C9_EmptyBatchZeroLosses ==
    (op = "call" /\ x.shape[1] = 0) =>
        /\ ~raised
        /\ encoding_indices = <<>>
        /\ codebook_loss = Quot(0, 1)
        /\ commitment_loss = Quot(0, 1)

\* C10: every step that changes the codebook is the optimizer's
\* apply_gradients, taken after the call of the same train_step has
\* returned; calls, get_code_indices and lookups leave it as it was.
C10_OnlyOptimizerWritesCodebook ==
    [][/\ embeddings' # embeddings =>
            (pc = "forward" /\ op = "call" /\ ~raised /\ op' = "apply_gradients")
       /\ op' \in {"call", "get_code_indices", "lookup"} => embeddings' = embeddings]_vars

C10_Witness ==
    /\ op = "apply_gradients"
    /\ pc = "applied"
    /\ Size(x) > 0
    /\ \A d \in 1..embedding_dim : \A k \in Codes(num_embeddings) :
          embeddings[d][k] # quantized.data[1]

C12_LossesNonNegative ==
    (Returned /\ Size(x) > 0) =>
        /\ ~IsNaN(codebook_loss)
        /\ codebook_loss.num >= 0
        /\ ~IsNaN(commitment_loss)
        /\ commitment_loss.num >= 0

C12_Witness ==
    /\ op = "call"
    /\ ~raised
    /\ commitment_loss.num > 0
    /\ \E i, j \in 1..Size(x) : /\ x.data[i] < quantized.data[i]
                                /\ x.data[j] > quantized.data[j]
    /\ FSum(SignedDifference(quantized.data, x.data)) < 0

\* The positions of a rows x cols array in raster order, k from 1.
Raster(k) == <<(k - 1) \div cols, (k - 1) % cols>>

\* C13: the sampling loop visits the positions in raster order, each once;
\* an iteration changes priors only at its own (row, col), in every image,
\* so what was written stays; and the loop ends, after exactly rows * cols
\* sampler calls.
C13_RasterOrderSampling ==
    /\ [](/\ sampler_calls = Len(visited)
          /\ sampler_calls <= rows * cols
          /\ \A k \in 1..Len(visited) : visited[k] = Raster(k)
          /\ pc = "sampling" => <<row, col>> = Raster(sampler_calls + 1)
          /\ pc = "sampled" => sampler_calls = rows * cols)
    /\ [][op' = "sample" =>
             \A j \in 1..Len(priors) :
                 (PriorRow(j) # row \/ PriorCol(j) # col) => priors'[j] = priors[j]]_vars
    /\ [][(pc = "sampling" /\ pc' = "sampling") =>
             (row' > row \/ (row' = row /\ col' > col))]_vars
    /\ <>(pc = "sampled")

C13_Witness ==
    /\ pc = "sampled"
    /\ rows = 2
    /\ cols = 2
    /\ visited = <<(<<0, 0>>), (<<0, 1>>), (<<1, 0>>), (<<1, 1>>)>>
    /\ priors[PriorIndex(0, 0, 0)] = 1
    /\ priors[PriorIndex(1, 0, 0)] = 0
    /\ priors[PriorIndex(0, 1, 1)] = 0

\* (r, c) comes before (cr, cc) in raster order.
RasterBefore(r, c, cr, cc) == r < cr \/ (r = cr /\ c < cc)

\* C14: the mask build makes is 1 exactly at the positions strictly before
\* the centre (kh // 2, kw // 2) in raster order for type "A", before or at
\* the centre for type "B", and 0 elsewhere, in every channel.
C14_MaskIsRasterPrefix ==
    mask # NoTensor =>
        /\ mask.shape = kernel.shape
        /\ Len(mask.data) = KernelSize(mask.shape)
        /\ \A r \in 0..(mask.shape[1] - 1) : \A c \in 0..(mask.shape[2] - 1) :
           \A i \in 0..(mask.shape[3] - 1) : \A o \in 0..(mask.shape[4] - 1) :
              mask.data[KernelIndex(mask.shape, r, c, i, o)] =
                  IF \/ RasterBefore(r, c, mask.shape[1] \div 2, mask.shape[2] \div 2)
                     \/ /\ mask_type = "B"
                        /\ r = mask.shape[1] \div 2
                        /\ c = mask.shape[2] \div 2
                  THEN 1 ELSE 0

C14_Witness ==
    /\ op = "build"
    /\ mask_type = "A"
    /\ mask.shape = <<3, 3, 2, 2>>
    /\ mask.data[KernelIndex(mask.shape, 0, 2, 1, 1)] = 1
    /\ mask.data[KernelIndex(mask.shape, 1, 0, 0, 1)] = 1
    /\ mask.data[KernelIndex(mask.shape, 1, 1, 1, 0)] = 0
    /\ mask.data[KernelIndex(mask.shape, 2, 0, 0, 0)] = 0

\* C15: after every call the kernel is 0 wherever the mask is 0, whatever
\* the optimizer wrote before the call, and a call right after a call
\* leaves the kernel as it is.
C15_KernelMaskedAtCall ==
    /\ [](op = "pixel_call" =>
             \A j \in 1..Len(mask.data) : mask.data[j] = 0 => kernel.data[j] = 0)
    /\ [][(op = "pixel_call" /\ op' = "pixel_call") => kernel' = kernel]_vars

C15_Witness ==
    /\ op = "pixel_call"
    /\ mask_type = "B"
    /\ mask.shape[1] = 3
    /\ \E j \in 1..Len(mask.data) : mask.data[j] = 0 /\ kernel.data[j] = 0
    /\ \E j \in 1..Len(mask.data) : mask.data[j] = 1 /\ kernel.data[j] # 0
    /\ \E k \in Kernels(kernel.shape) :
          \A j \in 1..Len(mask.data) :
              /\ k.data[j] # 0
              /\ mask.data[j] = 1 => kernel.data[j] = k.data[j]

\* The three trackers have been updated the same number of times.
SameCounts ==
    /\ total_loss_tracker.count = reconstruction_loss_tracker.count
    /\ total_loss_tracker.count = vq_loss_tracker.count

\* A step of train_step keeps the forward pass's losses up to the end of the
\* step: the optimizer's update leaves them as the call on the codebook before
\* the update made them, total_loss is the float32 sum of reconstruction_loss
\* and their sum, and the trackers are updated with total_loss,
\* reconstruction_loss and that same sum.
RecordsForwardPass ==
    /\ op' = "apply_gradients" =>
          /\ losses' = losses
          /\ losses = call(x, embeddings, embedding_dim, num_embeddings).losses
          /\ total_loss = QFAdd(reconstruction_loss, SumLosses(losses))
          /\ total_loss' = total_loss
    /\ op' = "update_state" =>
          /\ total_loss = QFAdd(reconstruction_loss, SumLosses(losses))
          /\ total_loss_tracker' = update_state(total_loss_tracker, total_loss)
          /\ reconstruction_loss_tracker' =
                update_state(reconstruction_loss_tracker, reconstruction_loss)
          /\ vq_loss_tracker' = update_state(vq_loss_tracker, SumLosses(losses))

\* A quotient in units of 1 / (4 * Size(x)), the step of every loss of fit's
\* batch, and the accumulated losses small enough for every float32 addition
\* behind them to have been exact (the losses are not negative, so no partial
\* sum was larger).
Units(q) == q.num * ((BetaDen * Size(x)) \div q.den)
NoAdditionRounded ==
    Units(reconstruction_loss_tracker.total) + Units(vq_loss_tracker.total)
        <= 2 ^ MantissaBits

\* C16 as stated: after any sequence of train_step calls the three trackers
\* have the same count and the accumulated total loss is the (float32) sum of
\* the accumulated reconstruction loss and the accumulated
\* vector-quantization loss; each step records the forward pass's
\* vector-quantization loss, the value that entered total_loss.
C16_AccumulatedTotalIsSum ==
    /\ [](/\ SameCounts
          /\ total_loss_tracker.total =
                QFAdd(reconstruction_loss_tracker.total, vq_loss_tracker.total))
    /\ [][RecordsForwardPass]_vars

\* C16, amended: after any sequence of train_step calls the three trackers
\* have the same count; each step records the forward pass's
\* vector-quantization loss, the value that entered total_loss, and its
\* total_loss is the float32 sum of that step's two losses; the accumulated
\* total loss is the sum of the other two accumulated losses whenever no
\* float32 addition behind them rounded.
C16_AccumulatedTotalIsSumWhenExact ==
    /\ [](/\ SameCounts
          /\ NoAdditionRounded =>
                total_loss_tracker.total =
                    QAdd(reconstruction_loss_tracker.total, vq_loss_tracker.total))
    /\ [][RecordsForwardPass]_vars

C16_Witness ==
    /\ op = "update_state"
    /\ total_loss_tracker.count = 2
    /\ NoAdditionRounded
    /\ vq_loss_tracker.total.num > 0
    /\ losses # call(x, embeddings, embedding_dim, num_embeddings).losses
    /\ total_loss_tracker.total =
          QAdd(reconstruction_loss_tracker.total, vq_loss_tracker.total)
====
